---- MODULE Spec2Model ----
(***************************************************************************)
(* The two-pass assembler for uCPU, src/assembler/ucasm.c.                 *)
(*                                                                         *)
(* A C string is a sequence of one-character strings (its terminating NUL  *)
(* is the position one past the end).  A source file is a sequence of      *)
(* lines, each as fgets delivers it (with its line feed).  One action      *)
(* models one iteration of the while loop of main (one source line), and   *)
(* one action each the three ways main goes on at end of file.             *)
(*                                                                         *)
(* TLC's integers are 32-bit signed, so the one value above 2^31 that the  *)
(* program handles, INVALID = (unsigned)-1, is written -1 as the source    *)
(* writes it, and the unsigned comparisons and the |= that can meet it go  *)
(* through ULess and BitOr below.                                          *)
(***************************************************************************)
EXTENDS Integers, Sequences, FiniteSets, TLC

\* Bound of the model: the number of lines of a source file.
MaxLines == 3

----------------------------------------------------------------------------
(* Constants and tables                                                    *)

INVALID == -1

\* unsigned a < b, with INVALID the largest unsigned value
ULess(a, b) == IF a = INVALID THEN FALSE ELSE IF b = INVALID THEN TRUE ELSE a < b

\* (unsigned char) x
ToUChar(x) == IF x = INVALID THEN 255 ELSE x % 256

RECURSIVE BitOrNat(_, _)
BitOrNat(a, b) ==
  IF a = 0 THEN b
  ELSE IF b = 0 THEN a
  ELSE (IF a % 2 = 1 \/ b % 2 = 1 THEN 1 ELSE 0) + 2 * BitOrNat(a \div 2, b \div 2)

\* a | b on unsigned; all bits are set in INVALID
BitOr(a, b) == IF a = INVALID \/ b = INVALID THEN INVALID ELSE BitOrNat(a, b)

\* typedef enum {REG, IMM, LAB, IND} operand_t
REG == 0
IMM == 1
LAB == 2
IND == 3

ORG == 16

\* a char* that is NULL
NULL == << >>

token ==
  << [name |-> <<"A","N","A">>, code |-> 0,   type |-> REG],
     [name |-> <<"A","N","I">>, code |-> 1,   type |-> IMM],
     [name |-> <<"X","R","A">>, code |-> 2,   type |-> REG],
     [name |-> <<"X","R","I">>, code |-> 3,   type |-> IMM],
     [name |-> <<"A","D","A">>, code |-> 4,   type |-> REG],
     [name |-> <<"A","D","I">>, code |-> 5,   type |-> IMM],
     [name |-> <<"S","B","A">>, code |-> 6,   type |-> REG],
     [name |-> <<"S","B","I">>, code |-> 7,   type |-> IMM],
     [name |-> <<"B","N","C">>, code |-> 8,   type |-> LAB],
     [name |-> <<"B","N","Z">>, code |-> 9,   type |-> LAB],
     [name |-> <<"J","P","R">>, code |-> 10,  type |-> REG],
     [name |-> <<"J","M","P">>, code |-> 11,  type |-> LAB],
     [name |-> <<"L","D","A">>, code |-> 12,  type |-> REG],
     [name |-> <<"L","D","I">>, code |-> 13,  type |-> IMM],
     [name |-> <<"S","T","A">>, code |-> 14,  type |-> REG],
     [name |-> <<"S","T","X">>, code |-> 15,  type |-> REG],
     [name |-> <<"O","R","G">>, code |-> ORG, type |-> IMM] >>

indreg ==
  << [name |-> <<"%","I","X">>,     code |-> 248],
     [name |-> <<"%","I","Y">>,     code |-> 249],
     [name |-> <<"@","I","X">>,     code |-> 250],
     [name |-> <<"@","I","Y">>,     code |-> 251],
     [name |-> <<"@","I","X","+">>, code |-> 252],
     [name |-> <<"@","I","Y","+">>, code |-> 253],
     [name |-> <<"@","-","I","X">>, code |-> 254],
     [name |-> <<"@","-","Y","Y">>, code |-> 255] >>

----------------------------------------------------------------------------
(* Characters and the C library                                            *)

Lowers == <<"a","b","c","d","e","f","g","h","i","j","k","l","m",
            "n","o","p","q","r","s","t","u","v","w","x","y","z">>
Uppers == <<"A","B","C","D","E","F","G","H","I","J","K","L","M",
            "N","O","P","Q","R","S","T","U","V","W","X","Y","Z">>
Digits == <<"0","1","2","3","4","5","6","7","8","9">>

\* The index of c in the sequence s (0: c is not in it)
IndexIn(s, c) ==
  IF \E i \in 1..Len(s) : s[i] = c THEN CHOOSE i \in 1..Len(s) : s[i] = c ELSE 0

UpperAt(i, c) == IF i > 0 THEN Uppers[i] ELSE c

toupper(c) == UpperAt(IndexIn(Lowers, c), c)

DigitAt(d, l) == IF d > 0 THEN d - 1 ELSE IF l > 0 THEN 9 + l ELSE 36

\* The value of c as a digit of strtoul (36: not a digit in any base)
DigitVal(c) == DigitAt(IndexIn(Digits, c), IndexIn(Uppers, toupper(c)))

\* str_toupper: while (!*p) { *p = toupper(*p); ++p; }.  From position i of s:
\* when *p is a character the condition !*p is false and the loop ends at once,
\* leaving s as it was.  When *p is the NUL (i past the end) the loop stores
\* toupper(NUL) = NUL back and walks out of the string; fgets never delivers
\* an empty string, so main never calls it that way.
str_toupper_from(s, i) ==
  IF i <= Len(s)
  THEN s    \* !*p is false: the body never runs
  ELSE s    \* *p = toupper(NUL), the string is still empty

str_toupper(s) == str_toupper_from(s, 1)

delim == {" ", "\t", "\n"}

\* The tokens strtok(src_line, delim), strtok(NULL, delim), ... deliver, each
\* with the offset (from 1) of its first character in the line.
RECURSIVE TokEnd(_, _)
TokEnd(s, i) == IF i > Len(s) \/ s[i] \in delim THEN i ELSE TokEnd(s, i + 1)

RECURSIVE strtok(_, _)
TokenTo(s, i, j) == << [at |-> i, s |-> SubSeq(s, i, j - 1)] >> \o strtok(s, j + 1)

strtok(s, i) ==
  IF i > Len(s) THEN << >>
  ELSE IF s[i] \in delim THEN strtok(s, i + 1)
  ELSE TokenTo(s, i, TokEnd(s, i))

\* The position after the last digit (in `base`) of p from position i
RECURSIVE DigitsEnd(_, _, _)
DigitsEnd(p, i, base) ==
  IF i <= Len(p) /\ DigitVal(p[i]) < base THEN DigitsEnd(p, i + 1, base) ELSE i

\* parse_label rejects every value above 0xFFFF alike (max_val is at most
\* 9999), so the sum of strtoul saturates there.
Saturated(v) == IF v > 16^4 THEN 16^4 ELSE v

\* The value of the digits p[i..j-1]
RECURSIVE DigitsVal(_, _, _, _, _)
DigitsVal(p, i, j, base, acc) ==
  IF i >= j THEN acc
  ELSE DigitsVal(p, i + 1, j, base, Saturated(acc * base + DigitVal(p[i])))

\* strtoul(p, &q, base): an optional sign, for base 16 an optional 0x before a
\* hex digit, then digits.  mag: the magnitude; neg: a '-' sign (the result is
\* then 0 - mag as unsigned); len: q - p (0 when there are no digits).
StrtoulSign(p) == IF Len(p) >= 1 /\ p[1] \in {"+", "-"} THEN 1 ELSE 0

StrtoulPrefix(p, base, sgn) ==
  IF /\ base = 16
     /\ Len(p) >= sgn + 3
     /\ p[sgn + 1] = "0"
     /\ p[sgn + 2] \in {"x", "X"}
     /\ DigitVal(p[sgn + 3]) < 16
  THEN 2 ELSE 0

StrtoulResult(p, base, start, end) ==
  IF end = start
  THEN [mag |-> 0, neg |-> FALSE, len |-> 0]
  ELSE [mag |-> DigitsVal(p, start, end, base, 0),
        neg |-> (p[1] = "-"),
        len |-> end - 1]

StrtoulDigits(p, base, start) == StrtoulResult(p, base, start, DigitsEnd(p, start, base))

StrtoulSigned(p, base, sgn) == StrtoulDigits(p, base, sgn + StrtoulPrefix(p, base, sgn) + 1)

strtoul(p, base) == StrtoulSigned(p, base, StrtoulSign(p))

\* lnum <= max_val && q - p <= max_width && !*q, for r = strtoul(p, &q, base)
\* and n the length of p; (unsigned)(0 - mag) is above max_val for every mag > 0
LabelOrInvalid(r, n, max_width, max_val) ==
  IF /\ (~r.neg \/ r.mag = 0)
     /\ r.mag <= max_val
     /\ r.len <= max_width
     /\ r.len = n
  THEN r.mag
  ELSE INVALID

parse_label(p, base, max_width, max_val) ==
  LabelOrInvalid(strtoul(p, base), Len(p), max_width, max_val)

\* memcmp(p, name, 3) == 0: the names have three characters and no NUL, so a
\* shorter p differs at its terminating NUL.
memcmp3(p, name) ==
  Len(p) >= 3 /\ SubSeq(p, 1, 3) = SubSeq(name, 1, 3)

\* strcmp(p, name) == 0
strcmp0(p, name) == p = name

----------------------------------------------------------------------------
(* One source line: the body of the while loop of main                     *)
(*                                                                         *)
(* m is the state of main while it works on a line: the variables of main  *)
(* (label, rom, pc, line_cnt, second_pass, the three counters), the        *)
(* listing file written so far (lst), the locals of the loop body, and     *)
(* goto: where control leaves the switch ("continue": the next token).     *)
(* written is history: the addresses rom[pc] = ... has been executed for.  *)

\* enum {LABEL, MNEMONIC, OPERAND, COMMENT} parser_state
LABEL == 0
MNEMONIC == 1
OPERAND == 2
COMMENT == 3

\* label[10000], every entry INVALID after the loop of lines 140-141: kept as
\* the function from the ids assigned so far to their values.
LabelAt(lab, id) == IF id \in DOMAIN lab THEN lab[id] ELSE INVALID

SetLabel(lab, id, v) == [i \in DOMAIN lab \cup {id} |-> IF i = id THEN v ELSE lab[i]]

Min(S) == CHOOSE x \in S : \A y \in S : x <= y

\* p - src_line + line_buf: the rest of the line as read, from the token on
Rest(line_buf, t) == SubSeq(line_buf, t.at, Len(line_buf))

\* goto syntax_error, with msg and p for the message
GotoSyntaxError(m, msg, p) == [m EXCEPT !.msg = msg, !.p = p, !.goto = "syntax_error"]

\* OpenWord with the opcode shifted by 4 bits, not 8
OpenWordNibble(m) ==
  [m EXCEPT !.rom = [@ EXCEPT ![m.pc] = m.opcode * 16],
            !.written = @ \cup {m.pc}]

\* OpenWord with rom[pc] |= opcode << 8
OpenWordOr(m) ==
  [m EXCEPT !.rom = [@ EXCEPT ![m.pc] = BitOr(@, m.opcode * 256)],
            !.written = @ \cup {m.pc}]

\* rom[pc] = opcode << 8
OpenWord(m) ==
  [m EXCEPT !.rom = [@ EXCEPT ![m.pc] = m.opcode * 256],
            !.written = @ \cup {m.pc}]

\* Declare without the test of second_pass at line 173
DeclareAnyPass(m) ==
  [m EXCEPT !.warning = IF LabelAt(m.label, m.lnum) # m.pc THEN @ + 1 ELSE @,
            !.lst     = IF LabelAt(m.label, m.lnum) # m.pc
                        THEN Append(@, [kind |-> "warning", lnum |-> m.lnum]) ELSE @,
            !.label   = SetLabel(@, m.lnum, m.pc),
            !.parser_state = MNEMONIC]

\* Lines 173-178, with lnum parsed
Declare(m) ==
  [m EXCEPT !.warning = IF m.second_pass /\ LabelAt(m.label, m.lnum) # m.pc
                        THEN @ + 1 ELSE @,
            !.lst     = IF m.second_pass /\ LabelAt(m.label, m.lnum) # m.pc
                        THEN Append(@, [kind |-> "warning", lnum |-> m.lnum]) ELSE @,
            !.label   = SetLabel(@, m.lnum, m.pc),
            !.parser_state = MNEMONIC]

\* Lines 169-179, with lnum parsed
CheckLabel(m, t) ==
  IF ~m.second_pass /\ m.lnum = INVALID
  THEN GotoSyntaxError(m, "incorrect label", t.s)
  ELSE Declare(m)

\* case LABEL, a token that starts with '$' (lines 166-180)
CaseLabel(m, t) ==
  CheckLabel([m EXCEPT !.lnum = parse_label(Tail(t.s), 10, 4, 9999)], t)

\* The for loop of lines 187-193 over the table: the first entry that matches
FirstMatch(m, hits) ==
  IF hits # {}
  THEN [m EXCEPT !.name   = token[Min(hits)].name,
                 !.opcode = token[Min(hits)].code,
                 !.optype = token[Min(hits)].type]
  ELSE m

\* CheckMnemonic without rom[pc] = opcode << 8
CheckMnemonicClosed(m, t) ==
  IF ~m.second_pass /\ m.name = NULL
  THEN GotoSyntaxError(m, "unexpected token", t.s)
  ELSE [m EXCEPT !.parser_state = OPERAND]

\* Lines 194-201, after the lookup
CheckMnemonic(m, t) ==
  IF ~m.second_pass /\ m.name = NULL
  THEN GotoSyntaxError(m, "unexpected token", t.s)
  ELSE IF ULess(m.opcode, ORG)
  THEN [OpenWord(m) EXCEPT !.parser_state = OPERAND]
  ELSE [m EXCEPT !.parser_state = OPERAND]

\* case MNEMONIC (lines 182-201)
CaseMnemonic(m, t) ==
  IF t.s[1] = ";"
  THEN [m EXCEPT !.comment = Rest(m.line_buf, t), !.goto = "print_listing"]
  ELSE CheckMnemonic(
         FirstMatch(m, {i \in 1..Len(token) : memcmp3(t.s, token[i].name)}), t)

\* set_operand: (lines 254-258)
SetOperand(m) ==
  [m EXCEPT !.rom = IF ULess(m.opcode, ORG)
                    THEN [@ EXCEPT ![m.pc] = BitOr(@, m.operand)]
                    ELSE @,
            !.parser_state = COMMENT]

\* Lines 209-220, with olnum parsed.  The break of line 218 leaves the switch
\* only: the for loop goes on to the next token with parser_state still OPERAND.
ResolveLabel(m, t) ==
  IF ~m.second_pass /\ m.olnum = INVALID
  THEN GotoSyntaxError(m, "incorrect label operand", t.s)
  ELSE IF LabelAt(m.label, m.olnum) = INVALID
  THEN IF m.second_pass
       THEN [m EXCEPT !.other_error = @ + 1,
                      !.lst = Append(@, [kind |-> "error", olnum |-> m.olnum])]
       ELSE m
  ELSE SetOperand([m EXCEPT !.operand = LabelAt(m.label, m.olnum)])

\* case OPERAND, a token that starts with '$' (lines 203-220)
LabelOperand(m, t) ==
  IF ~m.second_pass /\ m.optype # LAB
  THEN GotoSyntaxError(m, "incorrect operand", t.s)
  ELSE ResolveLabel([m EXCEPT !.olnum = parse_label(Tail(t.s), 10, 4, 9999)], t)

\* The for loop of lines 222-226 over the table: the first entry that matches
FirstIndreg(m, hits) ==
  IF hits # {} THEN [m EXCEPT !.operand = indreg[Min(hits)].code] ELSE m

\* Lines 247-253, with operand parsed from p
CheckNumber(m, p) ==
  IF ~m.second_pass /\ m.operand = INVALID
  THEN GotoSyntaxError(m, "incorrect operand", p)
  ELSE SetOperand([m EXCEPT !.pc = IF m.opcode = ORG THEN ToUChar(m.operand) ELSE @])

\* Lines 246-253, p past the '%' if there was one
NumberOperand(m, p) ==
  CheckNumber([m EXCEPT !.operand = parse_label(p, 16, 2, 255)], p)

\* Lines 227-253, after the lookup in indreg
CheckOperand(m, t) ==
  IF m.operand # 0
  THEN IF ~m.second_pass /\ m.optype # REG
       THEN GotoSyntaxError(m, "not allowed indexed mode operand", t.s)
       ELSE SetOperand(m)
  ELSE IF t.s[1] = "%"
  THEN IF ~m.second_pass /\ m.optype # REG
       THEN GotoSyntaxError(m, "not allowed reg operand", t.s)
       ELSE NumberOperand(m, Tail(t.s))
  ELSE IF ~m.second_pass /\ m.optype = REG
       THEN GotoSyntaxError(m, "reg operand reguired, possibly add % prefix to", t.s)
       ELSE NumberOperand(m, t.s)

\* case OPERAND, any other token (lines 221-253)
PlainOperand(m, t) ==
  CheckOperand(
    FirstIndreg(m, {i \in 1..Len(indreg) : strcmp0(t.s, indreg[i].name)}), t)

\* case OPERAND (lines 202-258)
CaseOperand(m, t) ==
  IF t.s[1] = "$" THEN LabelOperand(m, t) ELSE PlainOperand(m, t)

\* case COMMENT (lines 259-261)
CaseComment(m, t) ==
  [m EXCEPT !.comment = Rest(m.line_buf, t), !.goto = "print_listing"]

\* The switch on parser_state for one token (lines 164-262); a token without
\* '$' in state LABEL falls through to case MNEMONIC.
Switch(m, t) ==
  IF m.parser_state = LABEL /\ t.s[1] = "$" THEN CaseLabel(m, t)
  ELSE IF m.parser_state \in {LABEL, MNEMONIC} THEN CaseMnemonic(m, t)
  ELSE IF m.parser_state = OPERAND THEN CaseOperand(m, t)
  ELSE CaseComment(m, t)

\* The for loop over the tokens of the line (line 163): it ends at the last
\* token (control falls into print_listing) or at a goto.
RECURSIVE ForTokens(_, _, _)
NextToken(m, toks, k) ==
  IF m.goto = "continue" THEN ForTokens(m, toks, k + 1) ELSE m

ForTokens(m, toks, k) ==
  IF k > Len(toks) THEN [m EXCEPT !.goto = "print_listing"]
  ELSE NextToken(Switch(m, toks[k]), toks, k)

\* PrintListing with ++pc on a counter wider than 8 bits
PrintListingWide(m) ==
  LET insn  == m.parser_state >= OPERAND
      entry == [kind     |-> "line",
                line_cnt |-> m.line_cnt,
                pc       |-> m.pc,
                word     |-> IF insn /\ ULess(m.opcode, ORG) THEN m.rom[m.pc] ELSE INVALID,
                lnum     |-> m.lnum,
                name     |-> IF insn THEN m.name ELSE NULL,
                operand  |-> IF ~insn THEN << >>
                             ELSE IF m.olnum # INVALID THEN <<"$", m.olnum>>
                             ELSE IF m.optype = REG THEN <<"%", m.operand>>
                             ELSE <<" ", m.operand>>,
                comment  |-> m.comment]
  IN  [m EXCEPT !.lst = Append(@, entry),
                !.pc  = IF insn /\ ULess(m.opcode, ORG) THEN @ + 1 ELSE @]

\* print_listing: (lines 265-303).  The line of the listing is kept by its
\* fields (INVALID or NULL: the column stays blank), not by its columns.
PrintListing(m) ==
  LET insn  == m.parser_state >= OPERAND
      entry == [kind     |-> "line",
                line_cnt |-> m.line_cnt,
                pc       |-> m.pc,
                word     |-> IF insn /\ ULess(m.opcode, ORG) THEN m.rom[m.pc] ELSE INVALID,
                lnum     |-> m.lnum,
                name     |-> IF insn THEN m.name ELSE NULL,
                operand  |-> IF ~insn THEN << >>
                             ELSE IF m.olnum # INVALID THEN <<"$", m.olnum>>
                             ELSE IF m.optype = REG THEN <<"%", m.operand>>
                             ELSE <<" ", m.operand>>,
                comment  |-> m.comment]
  IN  [m EXCEPT !.lst = Append(@, entry),
                !.pc  = IF insn /\ ULess(m.opcode, ORG) THEN (@ + 1) % 256 ELSE @]

\* syntax_error: (lines 305-308)
SyntaxError(m) ==
  [m EXCEPT !.syntax_error = @ + 1,
            !.lst = Append(@, [kind |-> "syntax", msg |-> m.msg, p |-> m.p,
                               line_cnt |-> m.line_cnt, line_buf |-> m.line_buf])]

\* The variables of main that outlive a line
Globals == {"label", "rom", "pc", "line_cnt", "second_pass", "syntax_error",
            "other_error", "warning", "lst", "written"}

\* The locals of the loop body as declared (lines 154-157)
Locals(g, line_buf) ==
  [label |-> g.label, rom |-> g.rom, pc |-> g.pc, line_cnt |-> g.line_cnt,
   second_pass |-> g.second_pass, syntax_error |-> g.syntax_error,
   other_error |-> g.other_error, warning |-> g.warning, lst |-> g.lst,
   written |-> g.written,
   line_buf |-> line_buf,
   comment |-> NULL, name |-> NULL,
   lnum |-> INVALID, olnum |-> INVALID, optype |-> INVALID, opcode |-> INVALID,
   operand |-> 0, parser_state |-> LABEL,
   msg |-> "", p |-> NULL, goto |-> "continue"]

\* next_line: (lines 310-313): what is left of a loop body is main's state,
\* and, for the record, how the body ended
NextLine(m) ==
  [f \in Globals \cup {"goto", "parser_state"} |->
     IF f = "line_cnt" THEN m.line_cnt + 1 ELSE m[f]]

\* Lines 265-313
EndLine(m) ==
  NextLine(IF m.goto = "syntax_error" THEN SyntaxError(m) ELSE PrintListing(m))

\* The body of the while loop for the line fgets has put in line_buf (lines
\* 154-313): g is main's state before the line, the result its state after it.
Line(g, line_buf) ==
  EndLine(ForTokens(Locals(g, line_buf), strtok(str_toupper(line_buf), 1), 1))

----------------------------------------------------------------------------
(* The run of main                                                         *)

VARIABLES
  source,        \* the source file: its lines, as fgets delivers them
  pos,           \* the file position of src_file: the next line to read
  ctl,           \* where main is: "scan" (the while loop) or "exit" (returned)
  label, rom, pc, line_cnt, second_pass, syntax_error, other_error, warning,
  lst,           \* the listing file
  hex,           \* the hex dump file: << >> (none), or 16 rows of 16 words
  stderr,        \* what main has printed to stderr
  status,        \* << >> while main runs, <<n>> once it has returned n
  parser_state,  \* the local parser_state at the end of the last loop body
  written        \* history: the addresses rom[pc] = ... was executed for

vars == <<source, pos, ctl, label, rom, pc, line_cnt, second_pass, syntax_error,
          other_error, warning, lst, hex, stderr, status, parser_state, written>>

\* main's state before the first fgets (lines 127-151), with rom, which no
\* statement initialises, holding rom0
Start(rom0) ==
  [label |-> << >>, rom |-> rom0, pc |-> 0, line_cnt |-> 0, second_pass |-> FALSE,
   syntax_error |-> 0, other_error |-> 0, warning |-> 0,
   lst |-> << [kind |-> "header", pass |-> 1] >>, written |-> {}]

\* main's state, as Line takes it
Main ==
  [label |-> label, rom |-> rom, pc |-> pc, line_cnt |-> line_cnt,
   second_pass |-> second_pass, syntax_error |-> syntax_error,
   other_error |-> other_error, warning |-> warning, lst |-> lst,
   written |-> written]

SetMain(g) ==
  /\ label' = g.label
  /\ rom' = g.rom
  /\ pc' = g.pc
  /\ line_cnt' = g.line_cnt
  /\ second_pass' = g.second_pass
  /\ syntax_error' = g.syntax_error
  /\ other_error' = g.other_error
  /\ warning' = g.warning
  /\ lst' = g.lst
  /\ written' = g.written

\* Rewound with the table of labels cleared for the second pass
RewoundCleared(g) ==
  [g EXCEPT !.lst = << [kind |-> "header", pass |-> 2] >>,
            !.second_pass = TRUE, !.pc = 0, !.line_cnt = 0, !.label = << >>]

\* rewind, freopen and the jump back to second_pass: (lines 319-325, 150-151)
Rewound(g) ==
  [g EXCEPT !.lst = << [kind |-> "header", pass |-> 2] >>,
            !.second_pass = TRUE, !.pc = 0, !.line_cnt = 0]

\* GoesToSecondPass without the test of syntax_error
GoesToSecondPassUngated(g) == ~g.second_pass

\* The if of line 318
GoesToSecondPass(g) == g.syntax_error = 0 /\ ~g.second_pass

\* The 16 rows of 16 words of the hex dump (lines 343-347)
HexDump(r) == [i \in 1..16 |-> [j \in 1..16 |-> r[(i - 1) * 16 + (j - 1)]]]

\* What main prints to stderr before it returns (lines 331-338)
Report(g) ==
  IF g.syntax_error > 0
  THEN << [kind |-> "syntax", n |-> g.syntax_error] >>
  ELSE IF g.other_error > 0 \/ g.warning > 0
  THEN << [kind |-> "summary", warnings |-> g.warning, errors |-> g.other_error] >>
  ELSE << >>

\* The uninitialised contents of rom: whatever the stack held
StackWords == {0, 2748}

StackImages == {[a \in 0..255 |-> w] : w \in StackWords}

Started(g) ==
  /\ label = g.label
  /\ rom = g.rom
  /\ pc = g.pc
  /\ line_cnt = g.line_cnt
  /\ second_pass = g.second_pass
  /\ syntax_error = g.syntax_error
  /\ other_error = g.other_error
  /\ warning = g.warning
  /\ lst = g.lst
  /\ written = g.written

InitOver(lines) ==
  /\ source \in UNION {[1..n -> lines] : n \in 1..MaxLines}
  /\ pos = 1
  /\ ctl = "scan"
  /\ \E rom0 \in StackImages : Started(Start(rom0))
  /\ hex = << >>
  /\ stderr = << >>
  /\ status = << >>
  /\ parser_state = LABEL

\* main's state after a loop body that ended the way `how` says
Scanned(g, how) ==
  /\ g.goto = how
  /\ SetMain(g)
  /\ parser_state' = g.parser_state

\* One iteration of the while loop that ends in print_listing
ListLine ==
  /\ ctl = "scan"
  /\ pos <= Len(source)
  /\ Scanned(Line(Main, source[pos]), "print_listing")
  /\ pos' = pos + 1
  /\ UNCHANGED <<source, ctl, hex, stderr, status>>

\* One iteration of the while loop that ends in syntax_error
RejectLine ==
  /\ ctl = "scan"
  /\ pos <= Len(source)
  /\ Scanned(Line(Main, source[pos]), "syntax_error")
  /\ pos' = pos + 1
  /\ UNCHANGED <<source, ctl, hex, stderr, status>>

\* fgets returns NULL after pass 1 without syntax errors (lines 318-326)
SecondPass ==
  /\ ctl = "scan"
  /\ pos > Len(source)
  /\ GoesToSecondPass(Main)
  /\ SetMain(Rewound(Main))
  /\ pos' = 1
  /\ UNCHANGED <<source, ctl, hex, stderr, status, parser_state>>

\* fgets returns NULL, there were syntax errors (lines 328-334)
ReturnSyntaxErrors ==
  /\ ctl = "scan"
  /\ pos > Len(source)
  /\ ~GoesToSecondPass(Main)
  /\ syntax_error > 0
  /\ stderr' = stderr \o Report(Main)
  /\ status' = <<1>>
  /\ ctl' = "exit"
  /\ UNCHANGED <<source, pos, label, rom, pc, line_cnt, second_pass, syntax_error,
                 other_error, warning, lst, hex, parser_state, written>>

\* WriteHex with the return of line 333 missing: after the message about the
\* syntax errors control falls on into the hex dump
WriteHexUngated ==
  /\ ctl = "scan"
  /\ pos > Len(source)
  /\ ~GoesToSecondPass(Main)
  /\ stderr' = stderr \o Report(Main)
  /\ hex' = HexDump(rom)
  /\ status' = <<0>>
  /\ ctl' = "exit"
  /\ UNCHANGED <<source, pos, label, rom, pc, line_cnt, second_pass, syntax_error,
                 other_error, warning, lst, parser_state, written>>

\* fgets returns NULL after pass 2 (lines 328-351)
WriteHex ==
  /\ ctl = "scan"
  /\ pos > Len(source)
  /\ ~GoesToSecondPass(Main)
  /\ ~(syntax_error > 0)
  /\ stderr' = stderr \o Report(Main)
  /\ hex' = HexDump(rom)
  /\ status' = <<0>>
  /\ ctl' = "exit"
  /\ UNCHANGED <<source, pos, label, rom, pc, line_cnt, second_pass, syntax_error,
                 other_error, warning, lst, parser_state, written>>

Next == ListLine \/ RejectLine \/ SecondPass \/ ReturnSyntaxErrors \/ WriteHex

\* The while loop from line i of the source to its end (lines 153-314)
RECURSIVE Pass(_, _, _)
Pass(g, src, i) == IF i > Len(src) THEN g ELSE Pass(Line(g, src[i]), src, i + 1)

\* The while loop over the first n lines of the source
RECURSIVE PassTo(_, _, _)
PassTo(g, src, n) == IF n = 0 THEN g ELSE Line(PassTo(g, src, n - 1), src[n])

\* Lines 318-326: the second pass, when pass 1 found no syntax error
Passes(g, src) == IF GoesToSecondPass(g) THEN Pass(Rewound(g), src, 1) ELSE g

\* Lines 328-351: what main leaves behind when it returns
Returned(g) ==
  [syntax_error |-> g.syntax_error, other_error |-> g.other_error,
   warning |-> g.warning, lst |-> g.lst, stderr |-> Report(g),
   hex    |-> IF g.syntax_error > 0 THEN << >> ELSE HexDump(g.rom),
   status |-> IF g.syntax_error > 0 THEN <<1>> ELSE <<0>>]

\* A whole run of main on the source src, rom holding rom0 at the start
Assemble(src, rom0) == Returned(Passes(Pass(Start(rom0), src, 1), src))

----------------------------------------------------------------------------
(* Source files                                                            *)

\* The line with these tokens, one blank between them, and its line feed
RECURSIVE Text(_)
Text(toks) ==
  IF toks = << >> THEN << "\n" >>
  ELSE IF Len(toks) = 1 THEN toks[1] \o << "\n" >>
  ELSE toks[1] \o << " " >> \o Text(Tail(toks))

SourceLines ==
  { Text(<< <<"L","D","I">>, <<"0","5">> >>),
    Text(<< <<"$","1">>, <<"A","D","I">>, <<"0","1">> >>),
    Text(<< <<"B","N","Z">>, <<"$","1">> >>),
    Text(<< <<"J","M","P">>, <<"$","1">> >>),
    Text(<< <<"$","1">>, <<"A","D","I">>, <<"0","0">> >>),
    Text(<< <<"J","M","P">>, <<"$","5">> >>),
    Text(<< <<"J","M","P">>, <<"$","5">>, <<"1","F">> >>),
    Text(<< <<"F","O","O">>, <<"0","1">> >>),
    Text(<< <<"O","R","G">>, <<"1","0">> >>),
    Text(<< <<"O","R","G">>, <<"0","0">> >>),
    Text(<< <<"L","D","I">>, <<"0","A">> >>),
    Text(<< <<"l","d","i">>, <<"0","5">> >>),
    Text(<< >>) }

Init == InitOver(SourceLines)

Spec == Init /\ [][Next]_vars

\* The number of lines of a source file of GrammarSpec
MaxGrammarLines == 2

\* main before the first fgets, on a source of at most n lines out of `lines`
InitUpTo(lines, n) ==
  /\ source \in UNION {[1..k -> lines] : k \in 1..n}
  /\ pos = 1
  /\ ctl = "scan"
  /\ \E rom0 \in StackImages : Started(Start(rom0))
  /\ hex = << >>
  /\ stderr = << >>
  /\ status = << >>
  /\ parser_state = LABEL

\* Lines for the grammar of a line: the operand forms with a mnemonic of each
\* class, tokens after the operand, tokens that start with a mnemonic, lines
\* that end after the mnemonic
GrammarLines ==
  { Text(<< <<"S","T","A">>, <<"%","I","X">> >>),
    Text(<< <<"S","T","A">>, <<"%","I","Y">> >>),
    Text(<< <<"S","T","A">>, <<"@","I","X">> >>),
    Text(<< <<"S","T","A">>, <<"@","I","Y">> >>),
    Text(<< <<"S","T","A">>, <<"@","I","X","+">> >>),
    Text(<< <<"S","T","A">>, <<"@","I","Y","+">> >>),
    Text(<< <<"S","T","A">>, <<"@","-","I","X">> >>),
    Text(<< <<"S","T","A">>, <<"@","-","I","Y">> >>),
    Text(<< <<"L","D","I">>, <<"@","I","X">> >>),
    Text(<< <<"J","M","P">>, <<"@","I","Y">> >>),
    Text(<< <<"O","R","G">>, <<"@","I","X","+">> >>),
    Text(<< <<"J","M","P">>, <<"$","1">> >>),
    Text(<< <<"J","M","P">>, <<"$","1">>, <<";">>, <<"C">> >>),
    Text(<< <<"$","1">>, <<"A","D","I">>, <<"0","0">> >>),
    Text(<< <<"L","D","I">>, <<"0","5">>, <<"X","X">> >>),
    Text(<< <<"L","D","I">>, <<"0","5">>, <<";">>, <<"C">> >>),
    Text(<< <<"S","T","A">>, <<"%","1","F">>, <<"0","A">> >>),
    Text(<< <<"J","M","P">>, <<"1","F">> >>),
    Text(<< <<"S","T","A">>, <<"1","F">> >>),
    Text(<< <<"S","T","A">>, <<"%","1","F">> >>),
    Text(<< <<"S","T","A">>, <<"$","1">> >>),
    Text(<< <<"L","D","I">>, <<"%","1","F">> >>),
    Text(<< <<"L","D","I">>, <<"$","1">> >>),
    Text(<< <<"L","D","I">>, <<"0","5">> >>),
    Text(<< <<"L","D","I","X">>, <<"0","5">> >>),
    Text(<< <<"F","O","O">>, <<"0","1">> >>),
    Text(<< <<"L","D","I">> >>),
    Text(<< <<"S","T","A">> >>),
    Text(<< <<"$","1">>, <<"J","M","P">> >>),
    Text(<< <<"O","R","G">> >>),
    Text(<< <<"O","R","G">>, <<"1","0">> >>) }

GrammarInit == InitUpTo(GrammarLines, MaxGrammarLines)

GrammarSpec == GrammarInit /\ [][Next]_vars

\* Lines for the address counter: ORG to the last address, lines without an
\* instruction, lines that end after the mnemonic
CounterLines ==
  { Text(<< <<"L","D","I">>, <<"0","5">> >>),
    Text(<< <<"O","R","G">>, <<"F","F">> >>),
    Text(<< <<"O","R","G">>, <<"1","0">> >>),
    Text(<< <<"$","2">> >>),
    Text(<< <<";">>, <<"C">> >>),
    Text(<<  >>),
    Text(<< <<"$","2">>, <<"A","D","I">>, <<"0","1">> >>),
    Text(<< <<"J","M","P">>, <<"$","2">> >>),
    Text(<< <<"F","O","O">>, <<"0","1">> >>),
    Text(<< <<"L","D","I">> >>),
    Text(<< <<"O","R","G">> >>),
    Text(<< <<"S","T","A">>, <<"@","I","X">> >>) }

CounterInit == InitUpTo(CounterLines, MaxLines)

CounterSpec == CounterInit /\ [][Next]_vars

\* Lines for the words of the two passes: references that pass 1 cannot
\* resolve, with and without a token after them, declarations, ORG
WordLines ==
  { Text(<< <<"L","D","I">>, <<"0","5">> >>),
    Text(<< <<"L","D","I">> >>),
    Text(<< <<"$","2">>, <<"A","D","I">>, <<"0","1">> >>),
    Text(<< <<"$","2">> >>),
    Text(<< <<"J","M","P">>, <<"$","2">> >>),
    Text(<< <<"J","M","P">>, <<"$","2">>, <<"1","F">> >>),
    Text(<< <<"O","R","G">>, <<"1","0">> >>),
    Text(<< <<"F","O","O">>, <<"0","1">> >>) }

WordInit == InitUpTo(WordLines, MaxLines)

WordSpec == WordInit /\ [][Next]_vars

\* Lines for the gate between the passes: lines that are rejected in state
\* MNEMONIC and in state OPERAND, a declaration and a reference
GateLines ==
  { Text(<< <<"L","D","I">>, <<"0","5">> >>),
    Text(<< <<"F","O","O">>, <<"0","1">> >>),
    Text(<< <<"S","T","A">>, <<"1","F">> >>),
    Text(<< <<"$","1">>, <<"A","D","I">>, <<"0","0">> >>),
    Text(<< <<"J","M","P">>, <<"$","1">> >>),
    Text(<< >>) }

GateInit == InitUpTo(GateLines, MaxLines)

GateSpec == GateInit /\ [][Next]_vars

----------------------------------------------------------------------------
(* Reading a source file and a listing, for the properties below           *)

\* The word the hex dump holds for address a
HexWord(a) == hex[(a \div 16) + 1][(a % 16) + 1]

\* main has returned 0 and left an image
Assembled == ctl = "exit" /\ syntax_error = 0 /\ hex # << >>

\* The initial contents of rom in this run
Rom0 == CHOOSE r \in StackImages : \A a \in (0..255) \ written : r[a] = rom[a]

\* The tokens of a line, upper-cased
RefToks(line) ==
  LET ts == strtok(line, 1)
  IN  [k \in 1..Len(ts) |-> [i \in 1..Len(ts[k].s) |-> toupper(ts[k].s[i])]]

\* The label id a line declares (INVALID: none)
RefDecl(line) ==
  LET ts == RefToks(line)
  IN  IF Len(ts) >= 1 /\ ts[1][1] = "$"
      THEN parse_label(Tail(ts[1]), 10, 4, 9999) ELSE INVALID

\* The tokens of a line after its label declaration
RefBody(line) ==
  LET ts == RefToks(line)
  IN  IF Len(ts) >= 1 /\ ts[1][1] = "$" THEN Tail(ts) ELSE ts

\* The index in the table of the mnemonic of a line (0: the line has none)
RefMnem(line) ==
  LET b == RefBody(line)
  IN  IF b # << >> /\ \E i \in 1..Len(token) : token[i].name = b[1]
      THEN CHOOSE i \in 1..Len(token) : token[i].name = b[1]
      ELSE 0

\* The operand token of a line (<< >>: none)
RefArg(line) ==
  LET b == RefBody(line)
  IN  IF RefMnem(line) # 0 /\ Len(b) >= 2 /\ b[2][1] # ";" THEN b[2] ELSE << >>

\* The line is an instruction (not a directive)
RefIsInsn(line) == RefMnem(line) # 0 /\ token[RefMnem(line)].code < ORG

\* The line is an instruction of class LABEL with a label reference as operand
RefIsLabelRef(line) ==
  /\ RefIsInsn(line)
  /\ token[RefMnem(line)].type = LAB
  /\ RefArg(line) # << >>
  /\ RefArg(line)[1] = "$"

\* The label id a label reference names
RefTarget(line) == parse_label(Tail(RefArg(line)), 10, 4, 9999)

\* The value of a two-digit hex literal
RefHex(t) == 16 * DigitVal(t[1]) + DigitVal(t[2])

\* The address counter after a line, a being the counter before it: an ORG
\* line sets it to its operand, an instruction adds 1 modulo 256
RefAfter(a, line) ==
  IF RefMnem(line) # 0 /\ token[RefMnem(line)].code = ORG /\ Len(RefArg(line)) = 2
  THEN RefHex(RefArg(line))
  ELSE IF RefIsInsn(line) THEN (a + 1) % 256
  ELSE a

\* The address counter before line i of src
RECURSIVE RefPC(_, _)
RefPC(src, i) == IF i = 1 THEN 0 ELSE RefAfter(RefPC(src, i - 1), src[i - 1])

\* The lines of src that declare label n
RefDecls(src, n) == {i \in 1..Len(src) : RefDecl(src[i]) = n}

Max(S) == CHOOSE x \in S : \A y \in S : y <= x

\* The address of the last declaration of label n in src
RefAddr(src, n) == RefPC(src, Max(RefDecls(src, n)))

\* The position in the listing l of the line of source line i
LstAt(l, i) == CHOOSE k \in 1..Len(l) : l[k].kind = "line" /\ l[k].line_cnt = i - 1

\* The instruction word the listing l shows for source line i
LstWord(l, i) == l[LstAt(l, i)].word

\* The number of messages of a kind that the listing l holds for source line i
\* (main prints them right before the line of the listing)
LstCount(l, i, kind) ==
  Cardinality({k \in 1..Len(l) :
                 /\ l[k].kind = kind
                 /\ k < LstAt(l, i)
                 /\ i > 1 => k > LstAt(l, i - 1)})

----------------------------------------------------------------------------
(* The properties                                                          *)

\* C1: once main has returned: if it counted a syntax error, there is no hex
\* dump and the exit status is 1; if it counted none, the hex dump is written
\* and the exit status is 0, whatever the counts of semantic errors and
\* warnings.
C1_FailClosed ==
  ctl = "exit" =>
    IF syntax_error > 0
    THEN hex = << >> /\ status = <<1>>
    ELSE hex # << >> /\ status = <<0>>

\* C1: a run that counted a syntax error has returned 1 and left no image
C1_Witness == ctl = "exit" /\ syntax_error > 0 /\ hex = << >> /\ status = <<1>>

\* C1: a run that counted only semantic errors and warnings has returned 0 and
\* left an image
C1_WitnessSemantic ==
  /\ ctl = "exit" /\ syntax_error = 0 /\ other_error > 0 /\ warning > 0
  /\ hex # << >> /\ status = <<0>>

\* Source line i is a reference to a label that is declared, and only on
\* later lines
ForwardRef(src, i) ==
  /\ RefIsLabelRef(src[i])
  /\ RefDecls(src, RefTarget(src[i])) # {}
  /\ \A j \in RefDecls(src, RefTarget(src[i])) : j > i

\* C2: in a run without syntax errors, every instruction of class LABEL whose
\* operand label is declared only on later lines gets, in pass 2, the address
\* of the last declaration of the label as its operand byte, and no "label is
\* not defined" error.
C2_ForwardReference ==
  Assembled =>
    \A i \in 1..Len(source) :
      ForwardRef(source, i) =>
        /\ LstWord(lst, i) = token[RefMnem(source[i])].code * 256
                               + RefAddr(source, RefTarget(source[i]))
        /\ LstCount(lst, i, "error") = 0

\* C2: a forward reference to a label at an address other than 0 was assembled
C2_Witness ==
  /\ Assembled
  /\ \E i \in 1..Len(source) :
       /\ ForwardRef(source, i)
       /\ RefAddr(source, RefTarget(source[i])) > 0
       /\ LstWord(lst, i) % 256 = RefAddr(source, RefTarget(source[i]))

\* C3: in a run without syntax errors, every reference to a label that is
\* declared more than once is encoded in pass 2 with the address of the last
\* declaration of the label, wherever the reference stands.
C3_LastDeclarationWins ==
  Assembled =>
    \A i \in 1..Len(source) :
      (/\ RefIsLabelRef(source[i])
       /\ Cardinality(RefDecls(source, RefTarget(source[i]))) > 1)
      => LstWord(lst, i) % 256 = RefAddr(source, RefTarget(source[i]))

\* C4: in a run without syntax errors, pass 2 counts, for every label id
\* declared N times, N - 1 warnings (none for N = 1).
C4_WarningCount ==
  Assembled =>
    \A i \in 1..Len(source) :
      RefDecl(source[i]) # INVALID =>
        Cardinality({k \in 1..Len(lst) :
                       lst[k].kind = "warning" /\ lst[k].lnum = RefDecl(source[i])})
          = Cardinality(RefDecls(source, RefDecl(source[i]))) - 1

\* The operand byte a source line asks for: a label's final address, the
\* code of an indexed spelling, or the value of a hex literal (0: no operand)
RefOperand(src, i) ==
  LET t == RefArg(src[i])
  IN  IF t = << >> THEN 0
      ELSE IF t[1] = "$" THEN RefAddr(src, RefTarget(src[i]))
      ELSE IF \E k \in 1..Len(indreg) : indreg[k].name = t
      THEN indreg[CHOOSE k \in 1..Len(indreg) : indreg[k].name = t].code
      ELSE IF t[1] = "%" THEN RefHex(Tail(t))
      ELSE RefHex(t)

\* The word a source line asks for
RefWord(src, i) == token[RefMnem(src[i])].code * 256 + RefOperand(src, i)

\* Every label reference of src names a label that src declares
RefResolved(src) ==
  \A i \in 1..Len(src) :
    RefIsLabelRef(src[i]) => RefDecls(src, RefTarget(src[i])) # {}

\* The last instruction of src assigned to the address of instruction i
RefLastAt(src, i) ==
  Max({j \in 1..Len(src) : RefIsInsn(src[j]) /\ RefPC(src, j) = RefPC(src, i)})

\* C5: in a run without syntax errors (and with every referenced label
\* declared), every address an instruction is assigned to holds, in the image,
\* opcode << 8 | operand of the last instruction assigned to it, the addresses
\* counted from 0, plus 1 modulo 256 per instruction, set by ORG, and a label
\* operand being the address of the label's last declaration.
C5_ImageCorrect ==
  (Assembled /\ RefResolved(source)) =>
    \A i \in 1..Len(source) :
      RefIsInsn(source[i]) =>
        HexWord(RefPC(source, i)) = RefWord(source, RefLastAt(source, i))

\* C6: in the image main has written, every address that no instruction wrote
\* during the run holds 0, and rom was all zeros before the first write.
C6_ZeroFill ==
  Assembled =>
    /\ \A a \in (0..255) \ written : HexWord(a) = 0
    /\ \A a \in 0..255 : Rom0[a] = 0

LowerAt(i, c) == IF i > 0 THEN Lowers[i] ELSE c

tolower(c) == LowerAt(IndexIn(Uppers, c), c)

\* The offset in a line of its comment (past its end: it has none)
CommentAt(line) ==
  LET ts == strtok(line, 1)
  IN  IF \E k \in 1..Len(ts) : ts[k].s[1] = ";"
      THEN ts[Min({k \in 1..Len(ts) : ts[k].s[1] = ";"})].at
      ELSE Len(line) + 1

\* A source with every token that is not comment lower-cased
LowerCased(src) ==
  [i \in 1..Len(src) |->
     [k \in 1..Len(src[i]) |->
        IF k < CommentAt(src[i]) THEN tolower(src[i][k]) ELSE src[i][k]]]

\* C7: a run on the source and a run on the source with its tokens lower-cased
\* count the same number of syntax errors and leave the same image.
C7_CaseInsensitive ==
  ctl = "exit" =>
    /\ Assemble(LowerCased(source), Rom0).syntax_error = syntax_error
    /\ Assemble(LowerCased(source), Rom0).hex = hex

\* C8: in a run without syntax errors, every instruction of class LABEL whose
\* operand label is declared nowhere counts one semantic error and is encoded
\* as opcode << 8, whatever else is on its line, and main still writes the
\* image and returns 0; a reference to a declared label counts no error.
C8_UndefinedLabel ==
  (ctl = "exit" /\ syntax_error = 0) =>
    /\ hex # << >>
    /\ status = <<0>>
    /\ \A i \in 1..Len(source) :
         RefIsLabelRef(source[i]) =>
           IF RefDecls(source, RefTarget(source[i])) = {}
           THEN /\ LstCount(lst, i, "error") = 1
                /\ LstWord(lst, i) = token[RefMnem(source[i])].code * 256
           ELSE LstCount(lst, i, "error") = 0

\* C9: any two runs on the same source leave the same image and the same
\* listing, whatever main's stack held when they started.
C9_Deterministic ==
  ctl = "exit" =>
    \A rom0 \in StackImages :
      /\ Assemble(source, rom0).hex = hex
      /\ Assemble(source, rom0).lst = lst

\* The source of scenario 1 of the specification
Scenario1 ==
  << Text(<< <<"L","D","I">>, <<"0","5">> >>),
     Text(<< <<"$","1">>, <<"A","D","I">>, <<"0","1">> >>),
     Text(<< <<"B","N","Z">>, <<"$","1">> >>) >>

\* C10, as stated: the run on scenario 1 counts no syntax error and leaves
\* image[0] = 0xD05, image[1] = 0x101, image[2] = 0x901.
C10_Scenario1AsStated ==
  (ctl = "exit" /\ source = Scenario1) =>
    /\ syntax_error = 0
    /\ hex # << >>
    /\ HexWord(0) = 3333
    /\ HexWord(1) = 257
    /\ HexWord(2) = 2305

\* C10, amended: the run on scenario 1 counts no syntax error and leaves
\* image[0] = 0xD05, image[1] = 0x501 (the opcode of ADI is 5), image[2] = 0x901.
C10_Scenario1 ==
  (ctl = "exit" /\ source = Scenario1) =>
    /\ syntax_error = 0
    /\ hex # << >>
    /\ HexWord(0) = 3333
    /\ HexWord(1) = 1281
    /\ HexWord(2) = 2305

\* C10: the run on scenario 1 has returned and left an image
C10_Witness == ctl = "exit" /\ source = Scenario1 /\ hex # << >>

----------------------------------------------------------------------------
(* The grammar of a line                                                   *)

\* The listing l holds a syntax error message for source line i
LstSyntax(l, i) ==
  \E k \in 1..Len(l) : l[k].kind = "syntax" /\ l[k].line_cnt = i - 1

\* The listing l holds the line of the listing of source line i
LstListed(l, i) ==
  \E k \in 1..Len(l) : l[k].kind = "line" /\ l[k].line_cnt = i - 1

\* The class of the mnemonic of a line, ORG apart
RefClass(line) ==
  IF RefMnem(line) = 0 THEN "none"
  ELSE IF token[RefMnem(line)].code = ORG THEN "ORG"
  ELSE IF token[RefMnem(line)].type = REG THEN "REGISTER"
  ELSE IF token[RefMnem(line)].type = IMM THEN "IMMEDIATE"
  ELSE "LABEL"

\* The spellings of indexed addressing of the BNF of the source's header
\* comment: "%IX" | "%IY" and <indir-modes>
IndexedSpellings ==
  { <<"%","I","X">>, <<"%","I","Y">>, <<"@","I","X">>, <<"@","I","Y">>,
    <<"@","I","X","+">>, <<"@","I","Y","+">>, <<"@","-","I","X">>,
    <<"@","-","I","Y">> }

\* The line has a mnemonic and one of the indexed spellings as its operand
RefIsIndexed(line) == RefArg(line) \in IndexedSpellings

\* C11: of the lines read so far in a pass, every line with a mnemonic of
\* class REGISTER and one of the 8 indexed spellings of the BNF as operand is
\* listed without a syntax error, with an operand byte in F8..FF that differs
\* from the byte of every other spelling; every line with one of the spellings
\* as operand of a mnemonic of class IMMEDIATE or LABEL or of ORG is a syntax
\* error of pass 1.
C11_IndexedOperands ==
  \A i \in 1..(pos - 1) :
    RefIsIndexed(source[i]) =>
      IF RefClass(source[i]) = "REGISTER"
      THEN /\ ~LstSyntax(lst, i)
           /\ LstListed(lst, i)
           /\ LstWord(lst, i) % 256 \in 248..255
           /\ \A j \in 1..(pos - 1) :
                (/\ RefIsIndexed(source[j])
                 /\ RefClass(source[j]) = "REGISTER"
                 /\ LstListed(lst, j)
                 /\ RefArg(source[j]) # RefArg(source[i]))
                => LstWord(lst, j) % 256 # LstWord(lst, i) % 256
      ELSE ~second_pass => LstSyntax(lst, i)

\* main is about to read line pos of the source in pass 1
ReadsInPass1 == ctl = "scan" /\ pos <= Len(source) /\ ~second_pass

\* The tokens of a line after its operand
RefTrail(line) ==
  IF RefArg(line) = << >> THEN << >> ELSE Tail(Tail(RefBody(line)))

\* Nothing, or a comment, follows the operand of the line
RefEndsWell(line) == RefTrail(line) = << >> \/ RefTrail(line)[1][1] = ";"

\* Line i of src is [label] <LABEL-class mnemonic> $n [; comment], and no
\* line before it declares label n
RefIsForward(src, i) ==
  /\ RefIsLabelRef(src[i])
  /\ RefTarget(src[i]) # INVALID
  /\ RefEndsWell(src[i])
  /\ \A j \in RefDecls(src, RefTarget(src[i])) : j >= i

\* C12: reading, in pass 1, a line [label] <LABEL-class mnemonic> $n
\* [; comment] whose label n no earlier line declares leaves the count of
\* syntax errors as it was and the parser in its final state COMMENT.
C12_ForwardReferencePass1 ==
  [][(ReadsInPass1 /\ RefIsForward(source, pos))
       => (syntax_error' = syntax_error /\ parser_state' = COMMENT)]_vars

\* t is a hex literal of two digits
RefIsTwoHex(t) == Len(t) = 2 /\ \A k \in 1..2 : DigitVal(t[k]) < 16

\* t is a label reference: '$' and a decimal id of up to 4 digits
RefIsLabel(t) ==
  t # << >> /\ t[1] = "$" /\ parse_label(Tail(t), 10, 4, 9999) # INVALID

\* t is a hex literal of two digits with the '%' prefix, or an indexed spelling
RefIsRegister(t) ==
  \/ t \in IndexedSpellings
  \/ t # << >> /\ t[1] = "%" /\ RefIsTwoHex(Tail(t))

\* The operand of the line has the form the class of its mnemonic requires
RefFits(line) ==
  IF RefClass(line) = "LABEL" THEN RefIsLabel(RefArg(line))
  ELSE IF RefClass(line) = "REGISTER" THEN RefIsRegister(RefArg(line))
  ELSE IF RefClass(line) \in {"IMMEDIATE", "ORG"} THEN RefIsTwoHex(RefArg(line))
  ELSE FALSE

\* Line i of src has a well-formed label declaration or none, a mnemonic, and
\* an operand of the form the mnemonic requires; a label operand names a
\* label declared by then
RefComplete(src, i) ==
  /\ RefToks(src[i]) # << >>
  /\ RefToks(src[i])[1][1] = "$" => RefDecl(src[i]) # INVALID
  /\ RefFits(src[i])
  /\ RefClass(src[i]) = "LABEL" =>
       \E j \in RefDecls(src, RefTarget(src[i])) : j <= i

\* C13: of the lines read so far in pass 1, every line with label, mnemonic
\* and operand in order and a further token has a syntax error, and the run
\* then ends without an image and with status 1, unless the further token
\* starts with ';': then the line has no syntax error.
C13_TrailingGarbage ==
  \A i \in 1..(pos - 1) :
    (/\ ~second_pass
     /\ RefComplete(source, i)
     /\ RefTrail(source[i]) # << >>)
    => IF RefTrail(source[i])[1][1] = ";"
       THEN ~LstSyntax(lst, i)
       ELSE /\ LstSyntax(lst, i)
            /\ ctl = "exit" => (hex = << >> /\ status = <<1>>)

\* C14: of the lines read so far in pass 1, every line with an instruction
\* mnemonic and an operand token that has not the form the class of the
\* mnemonic requires (LABEL: a '$' label reference; REGISTER: a '%' hex
\* literal or an indexed spelling; IMMEDIATE: a bare hex literal) has a syntax
\* error.
C14_OperandClass ==
  \A i \in 1..(pos - 1) :
    (/\ ~second_pass
     /\ RefIsInsn(source[i])
     /\ RefArg(source[i]) # << >>
     /\ ~RefFits(source[i]))
    => LstSyntax(lst, i)

----------------------------------------------------------------------------
(* The two passes                                                          *)

\* fgets has returned NULL: the scan main is in has read the last line
AtEndOfFile == ctl = "scan" /\ pos > Len(source)

\* How far main has come: the lines read and the ends of file met in both
\* scans, and the return
Progress ==
  (IF second_pass THEN Len(source) + 1 ELSE 0) + pos + (IF ctl = "exit" THEN 1 ELSE 0)

\* What C15 says of one step of main
C15_Step ==
  \* a line is read whatever the count of syntax errors, it counts at most
  \* one, and the scan goes on in the same pass
  /\ (ctl = "scan" /\ pos <= Len(source)) =>
       /\ pos' = pos + 1
       /\ ctl' = "scan"
       /\ second_pass' = second_pass
       /\ syntax_error' \in {syntax_error, syntax_error + 1}
  \* a line of pass 1 is parsed from state LABEL, wherever the parser left
  \* the line before: its first token, when a label, is declared
  /\ (ReadsInPass1 /\ RefDecl(source[pos]) # INVALID) =>
       LabelAt(label', RefDecl(source[pos])) = pc
  \* pass 2 starts from the end of pass 1 only, with no syntax error counted,
  \* at line 1 and address 0
  /\ second_pass' # second_pass =>
       /\ ~second_pass /\ AtEndOfFile /\ syntax_error = 0
       /\ second_pass' /\ pos' = 1 /\ pc' = 0 /\ ctl' = "scan"
  \* at the end of pass 1 the count decides: pass 2, or return 1 with no image
  /\ (AtEndOfFile /\ ~second_pass) =>
       IF syntax_error = 0
       THEN second_pass'
       ELSE ctl' = "exit" /\ status' = <<1>> /\ hex' = << >>
  \* the end of pass 2 is the end of the run
  /\ (AtEndOfFile /\ second_pass) => ctl' = "exit"
  \* main returns from the end of a scan only
  /\ ctl' # ctl => (AtEndOfFile /\ ctl' = "exit")
  \* every step is one more line read, one more end of file met, or the return
  /\ Progress' = Progress + 1

\* Before it returns main can always take a step, and it has taken no more
\* steps than two scans and the return amount to
C15_Runs ==
  /\ (ctl = "scan" /\ pos <= Len(source)) =>
       Line(Main, source[pos]).goto \in {"print_listing", "syntax_error"}
  /\ Progress <= 2 * (Len(source) + 1) + 1
  /\ ctl = "exit" <=> status # << >>

\* C15: a syntax error never stops pass 1: every line is read, from state
\* LABEL, and counts at most one syntax error; the count decides once, at the
\* end of pass 1, between pass 2 (count 0) and the return of 1; pass 2 starts
\* at most once; every step of main brings it nearer to its return, which
\* comes after at most two scans.
C15_PassOrdering == [][C15_Step]_vars /\ []C15_Runs

\* C15: pass 1 went on after a syntax error in state OPERAND to a line with a
\* label that it accepted, to a line that it also rejected and to the end of
\* the file, and main returned without a second pass
C15_Witness ==
  /\ ctl = "exit" /\ ~second_pass /\ status = <<1>>
  /\ Len(source) = 3 /\ pos = 4
  /\ LstSyntax(lst, 1) /\ LstListed(lst, 2) /\ LstSyntax(lst, 3)
  /\ RefDecl(source[2]) # INVALID
  /\ syntax_error = 2

\* The line has no mnemonic: it is blank, a comment, or a label with nothing
\* or a comment after it
RefIsBare(line) == RefBody(line) = << >> \/ RefBody(line)[1][1] = ";"

\* The line is ORG with a hex literal of two digits
RefIsOrg(line) == RefClass(line) = "ORG" /\ RefIsTwoHex(RefArg(line))

\* What C16 says of reading one line, in either pass
C16_Step ==
  (ctl = "scan" /\ pos <= Len(source)) =>
    \* a line with an instruction mnemonic that is not rejected
    /\ (RefIsInsn(source[pos]) /\ syntax_error' = syntax_error) =>
         pc' = (pc + 1) % 256
    \* an ORG line
    /\ RefIsOrg(source[pos]) =>
         (pc' = RefHex(RefArg(source[pos])) /\ rom' = rom)
    \* a blank, comment-only or label-only line
    /\ RefIsBare(source[pos]) => (pc' = pc /\ rom' = rom)
    \* no other line changes the address counter
    /\ pc' # pc =>
         \/ RefIsInsn(source[pos]) /\ syntax_error' = syntax_error
         \/ RefIsOrg(source[pos])

\* The address counter is a byte, 0 when a pass starts
C16_Byte == pc \in 0..255 /\ ((ctl = "scan" /\ pos = 1) => pc = 0)

\* C16: the address counter is always in 0..255 and is 0 at the start of each
\* pass; reading a line changes it in two cases only: a line with an
\* instruction mnemonic that is accepted adds 1 modulo 256, an ORG line with a
\* two-digit hex operand sets it to the operand and writes no word; a blank,
\* comment-only or label-only line leaves it and the image as they are.
C16_AddressCounter == [][C16_Step]_vars /\ []C16_Byte

\* C16: an instruction at address 255, after ORG FF, has taken the address
\* counter back to 0 in pass 2
C16_Witness ==
  /\ second_pass /\ pos = 3 /\ pc = 0
  /\ RefIsOrg(source[1]) /\ RefHex(RefArg(source[1])) = 255
  /\ RefIsInsn(source[2])
  /\ 255 \in written

\* What C17 says of one step of main
C17_Step ==
  /\ syntax_error' >= syntax_error
  /\ other_error' >= other_error
  /\ warning' >= warning
  /\ syntax_error' # syntax_error => (~second_pass /\ ~second_pass')
  /\ (other_error' # other_error \/ warning' # warning) =>
       (second_pass /\ second_pass')

\* Pass 1 has counted no semantic error and no warning, pass 2 runs with no
\* syntax error counted
C17_InPass ==
  IF second_pass THEN syntax_error = 0 ELSE other_error = 0 /\ warning = 0

\* C17: no step of main decreases one of the three counters; the count of
\* syntax errors changes in pass 1 only, the counts of semantic errors and of
\* warnings change in pass 2 only, so that the count of syntax errors is 0
\* all through pass 2.
C17_Counters == [][C17_Step]_vars /\ []C17_InPass

\* C17: pass 2 has counted a semantic error and two warnings
C17_Witness ==
  ctl = "exit" /\ second_pass /\ syntax_error = 0 /\ other_error = 1 /\ warning = 2

\* main's state after the first n lines of pass 1 of this run
Pass1To(n) == PassTo(Start(Rom0), source, n)

\* main's state after a pass 2 that starts from the end of pass 1 of this run
\* with r for the contents of rom
Pass2Over(r) ==
  Pass(Rewound([Pass1To(Len(source)) EXCEPT !.rom = r, !.written = {}]), source, 1)

\* C18: in a run without syntax errors the address counter is, at every line
\* of pass 2, what it was at that line in pass 1; pass 2 writes the addresses
\* that pass 1 wrote; and the word the image holds at each of them is what
\* pass 2 computes for it whatever rom holds when pass 2 starts, the words of
\* pass 1 included.
C18_Pass1Discarded ==
  (second_pass /\ syntax_error = 0) =>
    /\ pc = Pass1To(pos - 1).pc
    /\ ctl = "exit" =>
         /\ Pass2Over(rom).written = Pass1To(Len(source)).written
         /\ \A r \in StackImages :
              \A a \in Pass1To(Len(source)).written :
                HexWord(a) = Pass2Over(r).rom[a]

\* C18: pass 1 wrote a word whose operand byte is not the one pass 2 wrote
\* at that address
C18_Witness ==
  /\ ctl = "exit" /\ second_pass /\ syntax_error = 0
  /\ \E a \in written :
       /\ Pass1To(Len(source)).rom[a] # HexWord(a)
       /\ Pass1To(Len(source)).rom[a] % 256 > 0

\* The token of the line in mnemonic position is no comment and is not, as a
\* whole, a name of the table
RefIsUnknown(line) ==
  /\ RefToks(line) # << >>
  /\ RefToks(line)[1][1] = "$" => RefDecl(line) # INVALID
  /\ RefBody(line) # << >>
  /\ RefBody(line)[1][1] # ";"
  /\ RefMnem(line) = 0

\* The source of the one line FOO 01
UnknownAlone == << Text(<< <<"F","O","O">>, <<"0","1">> >>) >>

\* C19: reading, in pass 1, a line whose token in mnemonic position is no
\* comment and not exactly one of the 16 mnemonics or ORG counts one syntax
\* error and writes no word; the run on FOO 01 alone counts one syntax error,
\* leaves no image and returns 1.
C19_UnknownMnemonic ==
  /\ [][(ReadsInPass1 /\ RefIsUnknown(source[pos]))
          => (syntax_error' = syntax_error + 1 /\ rom' = rom)]_vars
  /\ []((ctl = "exit" /\ source = UnknownAlone)
          => (syntax_error = 1 /\ hex = << >> /\ status = <<1>>))

\* The line ends right after its mnemonic
RefEndsAtMnemonic(line) ==
  /\ RefToks(line)[1][1] = "$" => RefDecl(line) # INVALID
  /\ RefMnem(line) # 0
  /\ Len(RefBody(line)) = 1

\* What C20 says of reading one line
C20_Step ==
  (ctl = "scan" /\ pos <= Len(source) /\ RefEndsAtMnemonic(source[pos])) =>
    IF RefClass(source[pos]) = "ORG"
    THEN /\ syntax_error' = syntax_error
         /\ other_error' = other_error
         /\ pc' = pc
    ELSE IF ~second_pass
    THEN syntax_error' = syntax_error
    ELSE /\ rom' = [rom EXCEPT ![pc] = token[RefMnem(source[pos])].code * 256]
         /\ pc' = (pc + 1) % 256

====
